---- MODULE Spec2Model ----
(***************************************************************************)
(* A model of the arc request pipeline:                                    *)
(*   - the analytics plugin's middleware chain (classifier, validateOp,    *)
(*     validateACL) of plugins/analytics/middleware.go,                    *)
(*   - the analytics Recorder middleware and its background task           *)
(*     recordResponse of the same file,                                    *)
(*   - the PATCH handlers of the users plugin, patchUser and               *)
(*     patchUserWithUsername,                                              *)
(*   - the reindexer plugin's accessor Instance of                         *)
(*     plugins/reindexer/reindexer.go.                                     *)
(***************************************************************************)
EXTENDS Integers, Sequences, FiniteSets, Bags, TLC

VARIABLES
    areq,      \* the request travelling through classifier/validateOp/validateACL
    req,       \* Recorder: the bag of requests, each with its handler's and task's state
    store,     \* the analytics index: document id -> stored document
    issued,    \* the UUIDs uuid.New() has returned so far
    crashed,   \* an unrecovered panic in a goroutine has ended the process
    principals, \* the principal store: username -> the stored user
    preq,      \* users plugin: the bag of PATCH requests and how far each has got
    singleton, \* reindexer: the package variable singleton
    once,      \* reindexer: the package variable once, a sync.Once
    caller,    \* reindexer: each goroutine's call of Instance() and what it returned
    made       \* reindexer: the number of reindexer values constructed so far

vars == <<areq, req, store, issued, crashed, principals, preq, singleton, once, caller, made>>

-----------------------------------------------------------------------------
(* Types shared by the middleware: op.Operation, acl.ACL, HTTP statuses.   *)

Ops == {"Read", "Write", "Delete"}
NoOp == "NoOp"                      \* ctx.Value(op.CtxKey) == nil

ACLs == {"Analytics", "Search"}
NoACL == "NoACL"                    \* ctx.Value(acl.CtxKey) == nil

Methods == {"GET", "POST", "PUT", "PATCH", "DELETE", "OPTIONS", "HEAD"}

StatusOK == 200
StatusBadRequest == 400
StatusUnauthorized == 401
StatusNotFound == 404
StatusInternalServerError == 500

\* op.Operation.String(): the lower-case name used in messages.
OpString(o) ==
    CASE o = "Read" -> "read"
      [] o = "Write" -> "write"
      [] o = "Delete" -> "delete"

\* acl.ACL.String()
ACLString(c) ==
    CASE c = "Analytics" -> "analytics"
      [] c = "Search" -> "search"

-----------------------------------------------------------------------------
(* The analytics middleware chain.                                         *)

UserId == "carol"

NoUser == [present |-> FALSE, isAdmin |-> FALSE, acls |-> {}, ops |-> {}]

Users ==
    [present : {TRUE}, isAdmin : BOOLEAN, acls : SUBSET ACLs, ops : SUBSET Ops]

\* The orders in which the route table can wrap the handler.
Chains ==
    { <<"classifier", "validateOp", "validateACL">>,
      <<"classifier", "validateACL", "validateOp">>,
      <<"validateOp", "validateACL">>,
      <<"validateACL", "validateOp">> }

NoMsg == <<>>
InternalMsg == <<"Internal server error">>
OpMsg(o) == <<"user with user_id=", UserId, " does not have '", OpString(o), "' op access">>
ACLMsg(c) == <<"user with \"user_id\"=\"", UserId, "\" does not have '", ACLString(c), "' acl">>
HandlerMsg == <<"ok">>

\* util.WriteBackMessage(w, msg, code): the middleware answers and returns.
WriteBackMessage(a, msg, code) ==
    [a EXCEPT !.status = code, !.msg = msg]

\* h(w, r): control passes to the next wrapper of the chain.
CallNext(a) == [a EXCEPT !.pos = @ + 1]

classifyPutFallsThrough(m) ==
    CASE m = "GET" -> "Read"
      [] m = "POST" -> "Write"
      [] m = "PATCH" -> "Write"
      [] m = "DELETE" -> "Delete"
      [] OTHER -> "Read"

\* The switch on r.Method.
classify(m) ==
    CASE m = "GET" -> "Read"
      [] m = "POST" -> "Write"
      [] m = "PUT" -> "Write"
      [] m = "PATCH" -> "Write"
      [] m = "DELETE" -> "Delete"
      [] OTHER -> "Read"

classifierKeepsOp(a) ==
    CallNext([a EXCEPT !.ctxAcl = "Analytics"])

classifier(a) ==
    CallNext([a EXCEPT !.ctxAcl = "Analytics", !.ctxOp = classify(a.method)])

validateOpAdminBypass(a) ==
    IF ~a.user.present THEN WriteBackMessage(a, InternalMsg, StatusInternalServerError)
    ELSE IF a.ctxOp = NoOp THEN WriteBackMessage(a, InternalMsg, StatusInternalServerError)
    ELSE IF ~a.user.isAdmin /\ a.ctxOp \notin a.user.ops
         THEN WriteBackMessage(a, OpMsg(a.ctxOp), StatusUnauthorized)
    ELSE CallNext(a)

validateOpInternalError(a) ==
    IF ~a.user.present THEN WriteBackMessage(a, InternalMsg, StatusInternalServerError)
    ELSE IF a.ctxOp = NoOp THEN WriteBackMessage(a, InternalMsg, StatusInternalServerError)
    ELSE IF a.ctxOp \notin a.user.ops
         THEN WriteBackMessage(a, InternalMsg, StatusInternalServerError)
    ELSE CallNext(a)

validateOp(a) ==
    IF ~a.user.present THEN WriteBackMessage(a, InternalMsg, StatusInternalServerError)
    ELSE IF a.ctxOp = NoOp THEN WriteBackMessage(a, InternalMsg, StatusInternalServerError)
    ELSE IF a.ctxOp \notin a.user.ops
         THEN WriteBackMessage(a, OpMsg(a.ctxOp), StatusUnauthorized)
    ELSE CallNext(a)

validateACLNoCheck(a) ==
    IF ~a.user.present THEN WriteBackMessage(a, InternalMsg, StatusInternalServerError)
    ELSE CallNext(a)

validateACL(a) ==
    IF ~a.user.present THEN WriteBackMessage(a, InternalMsg, StatusInternalServerError)
    ELSE IF "Analytics" \notin a.user.acls
         THEN WriteBackMessage(a, ACLMsg("Analytics"), StatusUnauthorized)
    ELSE CallNext(a)

\* The middleware whose turn it is, while no response has been written.
AtStage(name) ==
    /\ areq.status = 0
    /\ areq.pos <= Len(areq.chain)
    /\ areq.chain[areq.pos] = name

AuthFrame == UNCHANGED <<req, store, issued, crashed, principals, preq, singleton, once, caller, made>>

Classifier ==
    /\ AtStage("classifier")
    /\ areq' = classifier(areq)
    /\ AuthFrame

ValidateOp ==
    /\ AtStage("validateOp")
    /\ areq' = validateOp(areq)
    /\ AuthFrame

ValidateACL ==
    /\ AtStage("validateACL")
    /\ areq' = validateACL(areq)
    /\ AuthFrame

\* The wrapped route handler, reached when every wrapper called h(w, r).
Handler ==
    /\ areq.status = 0
    /\ areq.pos = Len(areq.chain) + 1
    /\ areq' = [WriteBackMessage(areq, HandlerMsg, StatusOK) EXCEPT !.handled = @ + 1]
    /\ AuthFrame

AuthIdle ==
    [method |-> "GET", user |-> NoUser, ctxAcl |-> NoACL, ctxOp |-> NoOp,
     chain |-> <<>>, pos |-> 1, status |-> StatusOK,
     msg |-> NoMsg, handled |-> 0]

AuthStart(m, u, o, ch) ==
    [method |-> m, user |-> u, ctxAcl |-> NoACL, ctxOp |-> o,
     chain |-> ch, pos |-> 1, status |-> 0,
     msg |-> NoMsg, handled |-> 0]

-----------------------------------------------------------------------------
(* http.ResponseWriter and httptest.ResponseRecorder, as Recorder uses     *)
(* them.  A writer keeps its header map, the status line once written, the *)
(* headers as they were sent with it, and the body bytes.                  *)

XSearchId == "X-Search-Id"
ContentType == "Content-Type"
HeaderNames == {XSearchId, ContentType}
NoHeaders == [k \in HeaderNames |-> ""]      \* "" stands for an absent header

\* The writer the server hands to the outermost handler.
NewWriter == [wrote |-> FALSE, code |-> 0, hdr |-> NoHeaders, sent |-> NoHeaders, body |-> <<>>]

\* httptest.NewRecorder(): Code starts as 200.
NewRecorder == [wrote |-> FALSE, code |-> StatusOK, hdr |-> NoHeaders, sent |-> NoHeaders, body |-> <<>>]

SetHeader(w, k, v) == [w EXCEPT !.hdr[k] = v]

\* The first WriteHeader wins and sends the headers set so far.
WriteHeader(w, c) ==
    IF w.wrote THEN w ELSE [w EXCEPT !.wrote = TRUE, !.code = c, !.sent = w.hdr]

\* Write sends an implicit 200 when no status was written.
Write(w, b) ==
    LET w1 == WriteHeader(w, StatusOK) IN [w1 EXCEPT !.body = @ \o b]

\* The server completes the response when the outermost handler returns.
Finish(w) == WriteHeader(w, StatusOK)

\* What the wrapped handler h does with the writer it is given: a sequence of
\* calls on it.
OpSetHeader(k, v) == [op |-> "SetHeader", k |-> k, v |-> v, code |-> 0, b |-> <<>>]
OpWriteHeader(c) == [op |-> "WriteHeader", k |-> "", v |-> "", code |-> c, b |-> <<>>]
OpWrite(b) == [op |-> "Write", k |-> "", v |-> "", code |-> 0, b |-> b]

Apply(w, o) ==
    CASE o.op = "SetHeader" -> SetHeader(w, o.k, o.v)
      [] o.op = "WriteHeader" -> WriteHeader(w, o.code)
      [] o.op = "Write" -> Write(w, o.b)

RECURSIVE Run(_, _)
Run(prog, w) ==
    IF prog = <<>> THEN w ELSE Run(Tail(prog), Apply(w, Head(prog)))

-----------------------------------------------------------------------------
(* Response bodies.  A body is a sequence of chunks of bytes; a chunk is a *)
(* JSON document or bytes that are not JSON.  A string inside a document   *)
(* is the sequence of its pieces, cut so that "_source", "_type" and "_id" *)
(* are pieces of their own wherever they occur in it.                      *)

\* One element of hits.hits as Elasticsearch sends it; id and src are the
\* strings of its _id and of its _source.
RawHit(id, src) ==
    [keys |-> <<"_id", "_type", "_source">>, vals |-> <<id, <<"t">>, src>>]

\* n hits h1 .. hn.
ManyHits(n) == [i \in 1..n |-> RawHit(<<"h" \o ToString(i)>>, <<"s" \o ToString(i)>>)]

NotJSON == [kind |-> "junk", took |-> 0, totalIsInt |-> TRUE, total |-> 0,
            hits |-> <<>>, responses |-> <<>>]

\* {"took":..,"hits":{"total":..,"hits":[..]}}; totalIsInt is FALSE when
\* hits.total is an object ({"value":..,"relation":..}).
SearchDoc(took, totalIsInt, total, hits) ==
    [kind |-> "search", took |-> took, totalIsInt |-> totalIsInt, total |-> total,
     hits |-> hits, responses |-> <<>>]

\* {"error":{"code":..,"message":..}}: the error envelope, a JSON object with
\* none of the keys of a search response.
ErrorDoc ==
    [kind |-> "error", took |-> 0, totalIsInt |-> TRUE, total |-> 0,
     hits |-> <<>>, responses |-> <<>>]

\* {"responses":[..]}
MsearchDoc(rs) ==
    [kind |-> "msearch", took |-> 0, totalIsInt |-> TRUE, total |-> 0,
     hits |-> <<>>, responses |-> rs]

\* The chunks of bytes of the model, by name, and what each holds.
Junk == "junk"
DocA == "docA"
DocB == "docB"
DocES7 == "docES7"
DocM == "docM"
DocErr == "docErr"
DocTen == "docTen"
DocBig == "docBig"
DocIdInside == "docIdInside"

RECURSIVE Content(_)
Content(chunk) ==
    CASE chunk = DocA ->
            SearchDoc(7, TRUE, 2, <<RawHit(<<"a">>, <<"k1">>), RawHit(<<"b">>, <<"k2">>)>>)
      [] chunk = DocB -> SearchDoc(3, TRUE, 1, <<RawHit(<<"c">>, <<"k3">>)>>)
      [] chunk = DocES7 -> SearchDoc(5, FALSE, 1, <<RawHit(<<"a">>, <<"k1">>)>>)
      [] chunk = DocTen -> SearchDoc(2, TRUE, 10, ManyHits(10))
      [] chunk = DocBig -> SearchDoc(9, TRUE, 40, ManyHits(12))
      [] chunk = DocIdInside ->
            SearchDoc(4, TRUE, 1, <<RawHit(<<"sku", "_id", "9">>, <<"user", "_id", "=5">>)>>)
      [] chunk = DocM -> MsearchDoc(<<Content(DocB), Content(DocA)>>)
      [] chunk = DocErr -> ErrorDoc
      [] OTHER -> NotJSON

\* bytes.Replace(respBody, "_source" -> "source", "_type" -> "type", "_id" -> "id")
\* on one piece of the body.
RenameKey(k) ==
    CASE k = "_source" -> "source"
      [] k = "_type" -> "type"
      [] k = "_id" -> "id"
      [] OTHER -> k

\* The replacement runs over all the bytes of the body, so over every piece
\* of a string as well as over the keys.
ReplaceAll(str) == [i \in DOMAIN str |-> RenameKey(str[i])]

Rename(hit) ==
    [keys |-> [i \in DOMAIN hit.keys |-> RenameKey(hit.keys[i])],
     vals |-> [i \in DOMAIN hit.vals |-> ReplaceAll(hit.vals[i])]]

\* The field of a decoded hit with json tag `key`; absent keys leave the
\* empty string.
HitField(hit, key) ==
    IF \E i \in DOMAIN hit.keys : hit.keys[i] = key
    THEN hit.vals[CHOOSE i \in DOMAIN hit.keys : hit.keys[i] = key]
    ELSE <<>>

\* The zero value of searchResponse.
ZeroResponse == [took |-> 0, total |-> 0, hits |-> <<>>]

DecodeHit(hit) ==
    LET h == Rename(hit) IN
    [id |-> HitField(h, "id"), type |-> HitField(h, "type"), source |-> HitField(h, "source")]

\* json.Unmarshal of one search document into searchResponse.
DecodeSearch(d) ==
    IF d.kind = "search"
    THEN [took |-> d.took, total |-> d.total,
          hits |-> [i \in DOMAIN d.hits |-> DecodeHit(d.hits[i])]]
    ELSE ZeroResponse          \* unknown keys are ignored

SearchDecodes(d) == d.kind # "search" \/ d.totalIsInt

\* json.Unmarshal(respBody, &esResponse)
UnmarshalSearch(body) ==
    IF Len(body) # 1 \/ Content(body[1]).kind = "junk" \/ ~SearchDecodes(Content(body[1]))
    THEN [err |-> TRUE, es |-> ZeroResponse]
    ELSE [err |-> FALSE, es |-> DecodeSearch(Content(body[1]))]

\* json.Unmarshal(respBody, &m) followed by the choice of m.Responses[0].
UnmarshalMsearch(body) ==
    IF Len(body) # 1 \/ Content(body[1]).kind = "junk"
    THEN [err |-> TRUE, es |-> ZeroResponse]
    ELSE LET rs == Content(body[1]).responses IN
         IF \E i \in DOMAIN rs : ~SearchDecodes(rs[i])
         THEN [err |-> TRUE, es |-> ZeroResponse]
         ELSE [err |-> FALSE,
               es |-> IF Len(rs) > 0 THEN DecodeSearch(rs[1]) ELSE ZeroResponse]

\* json.Marshal(source) as a string.
Marshal(src) == <<"json", src>>

-----------------------------------------------------------------------------
(* recordResponse: the analytics record built from a captured response.    *)

MaxHits == 10

\* r.RequestURI as its pieces, "_msearch" being a piece wherever it occurs:
\* /myidx/_search, /myidx/_msearch, /_msearch/template, /my_msearch_idx/_search.
UriSearch == <<"myidx", "_search">>
UriMsearch == <<"myidx", "_msearch">>
UriMsearchTemplate == <<"_msearch", "template">>
UriIndexNamed == <<"my", "_msearch", "_idx", "_search">>

\* strings.Contains(r.RequestURI, "_msearch")
ContainsMsearch(uri) == \E i \in DOMAIN uri : uri[i] = "_msearch"

\* strconv.ParseBool
ParseBool(s) ==
    IF s \in {"1", "t", "T", "TRUE", "true", "True"} THEN [err |-> FALSE, v |-> TRUE]
    ELSE IF s \in {"0", "f", "F", "FALSE", "false", "False"} THEN [err |-> FALSE, v |-> FALSE]
    ELSE [err |-> TRUE, v |-> FALSE]

\* strconv.Atoi on the header values of the model.
Atoi(s) ==
    CASE s = "0" -> [err |-> FALSE, v |-> 0]
      [] s = "3" -> [err |-> FALSE, v |-> 3]
      [] s = "-1" -> [err |-> FALSE, v |-> -1]
      [] OTHER -> [err |-> TRUE, v |-> 0]

\* parse(header): the comma-separated entries of the header, each key:value;
\* entries without a colon are dropped and the last occurrence of a key wins.
Entry(k, v) == [k |-> k, v |-> v, colon |-> TRUE]
NoColon(k) == [k |-> k, v |-> "", colon |-> FALSE]

parse(entries) ==
    LET good == {i \in DOMAIN entries : entries[i].colon}
        keys == {entries[i].k : i \in good}
        last(k) == CHOOSE i \in good :
                      /\ entries[i].k = k
                      /\ \A j \in good : entries[j].k = k => j <= i
    IN [k \in keys |-> entries[last(k)].v]

EmptyRecord == [f \in {} |-> ""]

Min(a, b) == IF a < b THEN a ELSE b

TopHitsUncut(es) ==
    [i \in 1..Len(es.hits) |->
        [id |-> es.hits[i].id, type |-> es.hits[i].type,
         source |-> Marshal(es.hits[i].source)]]

\* The loop over the first 10 hits.
TopHits(es) ==
    [i \in 1..Min(MaxHits, Len(es.hits)) |->
        [id |-> es.hits[i].id, type |-> es.hits[i].type,
         source |-> Marshal(es.hits[i].source)]]

CtxIndices == <<"myidx">>
Datestamp == "2006/01/02 15:04:05"
ClientIP == "203.0.113.7"

OriginKeysAlways(sid, x) ==
    {"indices", "search_query", "hits_in_response", "total_hits", "datestamp"}
        \cup (IF DOMAIN parse(x.filters) # {} THEN {"search_filters"} ELSE {})

\* The keys only an origin event (a request without X-Search-Id) is given.
OriginKeys(sid, x) ==
    IF sid = ""
    THEN {"indices", "search_query", "hits_in_response", "total_hits", "datestamp"}
            \cup (IF DOMAIN parse(x.filters) # {} THEN {"search_filters"} ELSE {})
    ELSE {}

\* The ip, and what the geo lookup resolves without error.
GeoKeys(x) ==
    {"ip"} \cup (IF x.geoOk THEN {"location"} ELSE {})
           \cup (IF x.countryOk THEN {"country"} ELSE {})

EventKeysKeepInvalid(x) ==
    (IF x.click # "" THEN {"click"} ELSE {})
        \cup (IF x.clickPos # "" /\ ~Atoi(x.clickPos).err THEN {"click_position"} ELSE {})
        \cup (IF x.conv # "" /\ ~ParseBool(x.conv).err THEN {"conversion"} ELSE {})
        \cup (IF DOMAIN parse(x.custom) # {} THEN {"custom_events"} ELSE {})

\* The click, position, conversion and custom-event headers that are set and
\* parse.
EventKeys(x) ==
    (IF x.click # "" /\ ~ParseBool(x.click).err THEN {"click"} ELSE {})
        \cup (IF x.clickPos # "" /\ ~Atoi(x.clickPos).err THEN {"click_position"} ELSE {})
        \cup (IF x.conv # "" /\ ~ParseBool(x.conv).err THEN {"conversion"} ELSE {})
        \cup (IF DOMAIN parse(x.custom) # {} THEN {"custom_events"} ELSE {})

FieldValue(f, q, es, x) ==
    CASE f = "took" -> es.took
      [] f = "indices" -> CtxIndices
      [] f = "search_query" -> q
      [] f = "hits_in_response" -> TopHits(es)
      [] f = "total_hits" -> es.total
      [] f = "datestamp" -> Datestamp
      [] f = "search_filters" -> parse(x.filters)
      [] f = "ip" -> ClientIP
      [] f = "location" -> "12.9,77.5"
      [] f = "country" -> "IN"
      [] f = "click" -> ParseBool(x.click).v
      [] f = "click_position" -> Atoi(x.clickPos).v
      [] f = "conversion" -> ParseBool(x.conv).v
      [] f = "custom_events" -> parse(x.custom)

\* The record map of recordResponse, lines 143-208.
BuildRecord(sid, q, es, x) ==
    [f \in {"took"} \cup OriginKeys(sid, x) \cup GeoKeys(x) \cup EventKeys(x) |->
        FieldValue(f, q, es, x)]

UnmarshalPathEnds(uri, body) ==
    IF uri[Len(uri)] = "_msearch" THEN UnmarshalMsearch(body) ELSE UnmarshalSearch(body)

\* json.Unmarshal under the decoder the request URI selects (lines 108-124).
Unmarshal(uri, body) ==
    IF ContainsMsearch(uri) THEN UnmarshalMsearch(body) ELSE UnmarshalSearch(body)

\* What recordResponse does once the body is unmarshalled (lines 126-217).
AfterUnmarshal(parsed, docId, sid, q, x) ==
    IF parsed.err
    THEN [outcome |-> "dropped", docId |-> docId, record |-> EmptyRecord]
    ELSE IF sid = "" /\ ~x.idx
    THEN [outcome |-> "panic", docId |-> docId, record |-> EmptyRecord]
    ELSE [outcome |-> "indexed", docId |-> docId,
          record |-> BuildRecord(sid, q, parsed.es, x)]

recordResponseNoReturn(docId, sid, q, body, x) ==
    CHOOSE out \in {AfterUnmarshal([parsed EXCEPT !.err = FALSE], docId, sid, q, x) :
                        parsed \in {Unmarshal(x.uri, body)}} : TRUE

\* recordResponse(docId, searchId, respRecorder, r): how the task ends.
\*   "dropped"  it returned before indexRecord (the body did not unmarshal)
\*   "panic"    the type assertion on the context indices failed
\*   "indexed"  it called a.es.indexRecord(docId, record)
recordResponse(docId, sid, q, body, x) ==
    CHOOSE out \in {AfterUnmarshal(parsed, docId, sid, q, x) :
                        parsed \in {Unmarshal(x.uri, body)}} : TRUE

\* a.es.indexRecord(docId, record): a partial update of the document docId,
\* created when absent; each field of the record replaces the stored one.
Merge(old, new) ==
    [f \in DOMAIN old \cup DOMAIN new |-> IF f \in DOMAIN new THEN new[f] ELSE old[f]]

indexRecord(st, docId, record) == [st EXCEPT ![docId] = Merge(@, record)]

-----------------------------------------------------------------------------
(* Recorder: the middleware around a handler h, and its background task.   *)

MaxReqs == 2

Reqs == 1..MaxReqs

\* uuid.New().String(): a value no earlier call returned and no client knows.
Uuid(n) == "uuid-" \o ToString(n)

ClientId == "client-1"

DocIds == {ClientId} \cup {Uuid(n) : n \in Reqs}

\* What ctx.Value(acl.CtxKey) can hold.
CtxACLs == {NoACL, "NotAnACL", "Search", "Analytics"}

Queries == {"", "shoes"}

\* The body util.WriteBackMessage writes.
InternalErrorBody == "Internal server error"

\* What the wrapped handler may do with its writer.
Programs ==
    { <<>>,
      <<OpWriteHeader(StatusNotFound), OpWrite(<<Junk>>)>>,
      <<OpSetHeader(ContentType, "application/json"), OpWrite(<<DocA>>)>>,
      <<OpSetHeader(XSearchId, "from-handler"), OpWriteHeader(StatusOK), OpWrite(<<DocM>>)>> }

\* The status and the body a program produces, read off the program itself.
RECURSIVE ProgStatus(_)
ProgStatus(prog) ==
    IF prog = <<>> THEN StatusOK
    ELSE IF Head(prog).op = "WriteHeader" THEN Head(prog).code
    ELSE IF Head(prog).op = "Write" THEN StatusOK
    ELSE ProgStatus(Tail(prog))

RECURSIVE ProgBody(_)
ProgBody(prog) ==
    IF prog = <<>> THEN <<>>
    ELSE IF Head(prog).op = "Write" THEN Head(prog).b \o ProgBody(Tail(prog))
    ELSE ProgBody(Tail(prog))

\* The request metadata recordResponse reads.
NoEvents ==
    [uri |-> UriSearch, idx |-> TRUE, filters |-> <<>>, click |-> "", clickPos |-> "",
     conv |-> "", custom |-> <<>>, geoOk |-> TRUE, countryOk |-> TRUE]

TaskInputs ==
    { NoEvents,
      [NoEvents EXCEPT !.uri = UriMsearch, !.idx = FALSE, !.click = "maybe",
                       !.clickPos = "3", !.conv = "true",
                       !.filters = <<Entry("color", "red")>>, !.geoOk = FALSE] }

NewReq ==
    [pc |-> "new", acl |-> NoACL, q |-> "", sid |-> "", docId |-> "", prog |-> <<>>,
     rec |-> NewRecorder, cli |-> NewWriter, task |-> "none",
     calls |-> 0, callId |-> "", record |-> EmptyRecord,
     meta |-> NoEvents, written |-> FALSE]

\* The request took the capture-and-tee path: it was given a document id.
Teed(rq) == rq.docId # ""

RecorderEnterEitherEmpty(rq, acl, q, sid, n) ==
    IF acl \in {NoACL, "NotAnACL"}
    THEN [rq EXCEPT !.acl = acl, !.pc = "done",
                    !.cli = Finish(Write(WriteHeader(rq.cli, StatusInternalServerError),
                                         <<InternalErrorBody>>))]
    ELSE IF acl # "Search" \/ (q = "" \/ sid = "")
    THEN [rq EXCEPT !.acl = acl, !.q = q, !.sid = sid, !.pc = "direct"]
    ELSE [rq EXCEPT !.acl = acl, !.q = q, !.sid = sid, !.pc = "tee",
                    !.docId = IF sid = "" THEN Uuid(n + 1) ELSE sid]

RecorderEnterAnyACL(rq, acl, q, sid, n) ==
    IF acl \in {NoACL, "NotAnACL"}
    THEN [rq EXCEPT !.acl = acl, !.pc = "done",
                    !.cli = Finish(Write(WriteHeader(rq.cli, StatusInternalServerError),
                                         <<InternalErrorBody>>))]
    ELSE IF q = "" /\ sid = ""
    THEN [rq EXCEPT !.acl = acl, !.q = q, !.sid = sid, !.pc = "direct"]
    ELSE [rq EXCEPT !.acl = acl, !.q = q, !.sid = sid, !.pc = "tee",
                    !.docId = IF sid = "" THEN Uuid(n + 1) ELSE sid]

RecorderEnterSameId(rq, acl, q, sid, n) ==
    IF acl \in {NoACL, "NotAnACL"}
    THEN [rq EXCEPT !.acl = acl, !.pc = "done",
                    !.cli = Finish(Write(WriteHeader(rq.cli, StatusInternalServerError),
                                         <<InternalErrorBody>>))]
    ELSE IF acl # "Search" \/ (q = "" /\ sid = "")
    THEN [rq EXCEPT !.acl = acl, !.q = q, !.sid = sid, !.pc = "direct"]
    ELSE [rq EXCEPT !.acl = acl, !.q = q, !.sid = sid, !.pc = "tee",
                    !.docId = IF sid = "" THEN Uuid(1) ELSE sid]

RecorderEnterNilPasses(rq, acl, q, sid, n) ==
    IF acl = "NotAnACL"
    THEN [rq EXCEPT !.acl = acl, !.pc = "done",
                    !.cli = Finish(Write(WriteHeader(rq.cli, StatusInternalServerError),
                                         <<InternalErrorBody>>))]
    ELSE IF acl # "Search" \/ (q = "" /\ sid = "")
    THEN [rq EXCEPT !.acl = acl, !.q = q, !.sid = sid, !.pc = "direct"]
    ELSE [rq EXCEPT !.acl = acl, !.q = q, !.sid = sid, !.pc = "tee",
                    !.docId = IF sid = "" THEN Uuid(n + 1) ELSE sid]

\* Lines 53-76: the context acl, the two headers, the choice of the path and
\* of the document id.  n is the number of UUIDs issued so far.
RecorderEnter(rq, acl, q, sid, n) ==
    IF acl \in {NoACL, "NotAnACL"}
    THEN [rq EXCEPT !.acl = acl, !.pc = "done",
                    !.cli = Finish(Write(WriteHeader(rq.cli, StatusInternalServerError),
                                         <<InternalErrorBody>>))]
    ELSE IF acl # "Search" \/ (q = "" /\ sid = "")
    THEN [rq EXCEPT !.acl = acl, !.q = q, !.sid = sid, !.pc = "direct"]
    ELSE [rq EXCEPT !.acl = acl, !.q = q, !.sid = sid, !.pc = "tee",
                    !.docId = IF sid = "" THEN Uuid(n + 1) ELSE sid]

\* Lines 69-70: h(w, r) on the client's writer, then return.
ServeDirectly(rq, prog) ==
    [rq EXCEPT !.prog = prog, !.cli = Finish(Run(prog, rq.cli)), !.pc = "done"]

ServeRecordedTaskFirst(rq, prog) ==
    [rq EXCEPT !.prog = prog, !.rec = Run(prog, NewRecorder), !.pc = "captured",
               !.task = "running"]

\* Lines 79-80: h(respRecorder, r).
ServeRecorded(rq, prog) ==
    [rq EXCEPT !.prog = prog, !.rec = Run(prog, NewRecorder), !.pc = "captured"]

\* Lines 83-88: copy the recorder's headers, set X-Search-Id, write status and body.
CopyHeaders(w, from) == [w EXCEPT !.hdr = [k \in HeaderNames |->
                            IF from[k] # "" THEN from[k] ELSE w.hdr[k]]]

RelayResponseNoStatus(rq) ==
    [rq EXCEPT !.pc = "relayed",
               !.cli = Write(SetHeader(CopyHeaders(rq.cli, rq.rec.hdr), XSearchId, rq.docId),
                             rq.rec.body)]

RelayResponseCopyLast(rq) ==
    [rq EXCEPT !.pc = "relayed",
               !.cli = Write(WriteHeader(CopyHeaders(SetHeader(rq.cli, XSearchId, rq.docId),
                                                     rq.rec.hdr),
                                         rq.rec.code),
                             rq.rec.body)]

RelayResponse(rq) ==
    [rq EXCEPT !.pc = "relayed",
               !.cli = Write(WriteHeader(SetHeader(CopyHeaders(rq.cli, rq.rec.hdr),
                                                   XSearchId, rq.docId),
                                         rq.rec.code),
                             rq.rec.body)]

\* Lines 90-91: go a.recordResponse(...), and the handler returns.
StartTask(rq) ==
    [rq EXCEPT !.pc = "done", !.task = "running", !.cli = Finish(rq.cli)]

Live == ~crashed

\* req is the bag of the requests that have reached Recorder: requests carry
\* no identity of their own, so two requests in the same state are two copies.
Arrived == BagToSet(req)

Replace(rq, rq2) == (req (-) SetToBag({rq})) (+) SetToBag({rq2})

Enter ==
    /\ Live
    /\ BagCardinality(req) < MaxReqs
    /\ \E acl \in CtxACLs, q \in Queries, sid \in {"", ClientId} \cup issued :
         LET rq == RecorderEnter(NewReq, acl, q, sid, Cardinality(issued)) IN
         /\ req' = req (+) SetToBag({rq})
         /\ issued' = IF rq.pc = "tee" /\ sid = "" THEN issued \cup {rq.docId} ELSE issued
    /\ UNCHANGED <<areq, store, crashed, principals, preq, singleton, once, caller, made>>

ServeDirect ==
    /\ Live
    /\ \E rq \in Arrived, prog \in Programs :
         /\ rq.pc = "direct"
         /\ req' = Replace(rq, ServeDirectly(rq, prog))
    /\ UNCHANGED <<areq, store, issued, crashed, principals, preq, singleton, once, caller, made>>

ServeTee ==
    /\ Live
    /\ \E rq \in Arrived, prog \in Programs :
         /\ rq.pc = "tee"
         /\ req' = Replace(rq, ServeRecorded(rq, prog))
    /\ UNCHANGED <<areq, store, issued, crashed, principals, preq, singleton, once, caller, made>>

Relay ==
    /\ Live
    /\ \E rq \in Arrived :
         /\ rq.pc = "captured"
         /\ req' = Replace(rq, RelayResponse(rq))
    /\ UNCHANGED <<areq, store, issued, crashed, principals, preq, singleton, once, caller, made>>

Spawn ==
    /\ Live
    /\ \E rq \in Arrived :
         /\ rq.pc = "relayed"
         /\ req' = Replace(rq, StartTask(rq))
    /\ UNCHANGED <<areq, store, issued, crashed, principals, preq, singleton, once, caller, made>>

\* How the request record keeps what recordResponse read and did.
TaskEnd(rq, out, x, written) ==
    IF out.outcome = "indexed"
    THEN [rq EXCEPT !.task = "indexed", !.calls = @ + 1, !.callId = out.docId,
                    !.record = out.record, !.meta = x, !.written = written]
    ELSE [rq EXCEPT !.task = out.outcome, !.meta = x]

\* The goroutine runs recordResponse; the write to the index may fail, which
\* indexRecord only logs.
RecordTask ==
    /\ Live
    /\ \E rq \in Arrived :
         /\ rq.task = "running"
         /\ \E x \in TaskInputs, written \in BOOLEAN :
              \E out \in {recordResponse(rq.docId, rq.sid, rq.q, rq.rec.body, x)} :
                 /\ crashed' = (out.outcome = "panic")
                 /\ req' = Replace(rq, TaskEnd(rq, out, x, written))
                 /\ store' = IF out.outcome = "indexed" /\ written
                             THEN indexRecord(store, out.docId, out.record)
                             ELSE store
    /\ UNCHANGED <<areq, issued, principals, preq, singleton, once, caller, made>>

-----------------------------------------------------------------------------
(* The reindexer plugin: Instance() and the package variables singleton    *)
(* and once.  once.Do is followed through the steps of sync.Once: the load *)
(* of done, the mutex, the second load of done under the mutex, f, the     *)
(* store of done and the unlock.                                           *)

MaxCallers == 3

\* The goroutines that call Instance().
Callers == 1..MaxCallers

\* A nil *reindexer; the n-th value &reindexer{} constructs is n.
Nil == 0

\* The zero sync.Once: done is 0 and the mutex m is held by nobody.
NewOnce == [done |-> 0, m |-> 0]

\* The package variables as declared: var ( singleton *reindexer; once sync.Once ).
ReindexerStart ==
    /\ singleton = Nil
    /\ once = NewOnce
    /\ caller = [g \in Callers |-> [pc |-> "idle", ret |-> Nil, how |-> ""]]
    /\ made = 0

OnceDoFastUnguarded(o) ==
    IF o.done = 0 THEN "f" ELSE "return"

\* once.Do, first load of done: the slow path while done is 0, else return.
OnceDoFast(o) ==
    IF o.done = 0 THEN "lock" ELSE "return"

\* once.Do under the mutex: f runs only while done is still 0.
OnceDoSlow(o) ==
    IF o.done = 0 THEN "f" ELSE "unlock"

\* A goroutine calls Instance() and enters once.Do.
InstanceCall ==
    /\ \E g \in Callers :
         /\ caller[g].pc = "idle"
         /\ caller' = [caller EXCEPT ![g].pc = "fast"]
    /\ UNCHANGED <<singleton, once, made>>
    /\ UNCHANGED <<areq, req, store, issued, crashed, principals, preq>>

OnceFast ==
    /\ \E g \in Callers :
         /\ caller[g].pc = "fast"
         /\ caller' = [caller EXCEPT ![g].pc = OnceDoFast(once),
                                     ![g].how = IF once.done = 0 THEN "slow" ELSE "fast"]
    /\ UNCHANGED <<singleton, once, made>>
    /\ UNCHANGED <<areq, req, store, issued, crashed, principals, preq>>

\* o.m.Lock(): granted to one goroutine at a time.
OnceLock ==
    /\ \E g \in Callers :
         /\ caller[g].pc = "lock"
         /\ once.m = 0
         /\ once' = [once EXCEPT !.m = g]
         /\ caller' = [caller EXCEPT ![g].pc = "slow"]
    /\ UNCHANGED <<singleton, made>>
    /\ UNCHANGED <<areq, req, store, issued, crashed, principals, preq>>

OnceSlow ==
    /\ \E g \in Callers :
         /\ caller[g].pc = "slow"
         /\ caller' = [caller EXCEPT ![g].pc = OnceDoSlow(once),
                                     ![g].how = IF once.done = 0 THEN "built" ELSE "waited"]
    /\ UNCHANGED <<singleton, once, made>>
    /\ UNCHANGED <<areq, req, store, issued, crashed, principals, preq>>

\* f: singleton = &reindexer{}
OnceF ==
    /\ \E g \in Callers :
         /\ caller[g].pc = "f"
         /\ made' = made + 1
         /\ singleton' = made + 1
         /\ caller' = [caller EXCEPT ![g].pc = "store"]
    /\ UNCHANGED once
    /\ UNCHANGED <<areq, req, store, issued, crashed, principals, preq>>

\* The deferred o.done.Store(1), after f has returned.
OnceStore ==
    /\ \E g \in Callers :
         /\ caller[g].pc = "store"
         /\ once' = [once EXCEPT !.done = 1]
         /\ caller' = [caller EXCEPT ![g].pc = "unlock"]
    /\ UNCHANGED <<singleton, made>>
    /\ UNCHANGED <<areq, req, store, issued, crashed, principals, preq>>

\* The deferred o.m.Unlock(); a goroutine that never took the mutex has none.
OnceUnlock ==
    /\ \E g \in Callers :
         /\ caller[g].pc = "unlock"
         /\ once' = [once EXCEPT !.m = IF @ = g THEN 0 ELSE @]
         /\ caller' = [caller EXCEPT ![g].pc = "return"]
    /\ UNCHANGED <<singleton, made>>
    /\ UNCHANGED <<areq, req, store, issued, crashed, principals, preq>>

\* return singleton
InstanceReturn ==
    /\ \E g \in Callers :
         /\ caller[g].pc = "return"
         /\ caller' = [caller EXCEPT ![g].pc = "done", ![g].ret = singleton]
    /\ UNCHANGED <<singleton, once, made>>
    /\ UNCHANGED <<areq, req, store, issued, crashed, principals, preq>>

NextInstance ==
    \/ InstanceCall
    \/ OnceFast
    \/ OnceLock
    \/ OnceSlow
    \/ OnceF
    \/ OnceStore
    \/ OnceUnlock
    \/ InstanceReturn

-----------------------------------------------------------------------------
(* The users plugin: patchUser and patchUserWithUsername.                  *)

\* The acls and categories a principal can hold, and the fixed table that
\* gives the acl admitting each category.
PrincipalACLs == {"User", "Search"}
Categories == {"user", "search"}

ACLFor(c) ==
    CASE c = "user" -> "User"
      [] c = "search" -> "Search"

\* Each category is admitted by one of the acls.
Admitted(acls, cats) == \A c \in cats : ACLFor(c) \in acls

\* reqUser.ValidateCategories(categories...): TRUE stands for a nil error.
ValidateCategories(u, cats) == Admitted(u.acls, cats)

Usernames == {"carol", "ghost"}
NoUsername == ""                    \* mux.Vars(r) holds no "username"

NoPrincipal == [exists |-> FALSE, acls |-> {}, cats |-> {}]
Principal(acls, cats) == [exists |-> TRUE, acls |-> acls, cats |-> cats]

\* The store before any PATCH: carol exists, ghost does not.
StoredAtStart ==
    [u \in Usernames |-> IF u = "carol" THEN Principal({"User"}, {"user"}) ELSE NoPrincipal]

\* The bodies of the PATCH requests: bytes that do not parse, or a user
\* object with acls and categories each set or left out.
Garbage == [parses |-> FALSE, hasAcls |-> FALSE, acls |-> {}, hasCats |-> FALSE, cats |-> {}]

UserBody(hasAcls, acls, hasCats, cats) ==
    [parses |-> TRUE, hasAcls |-> hasAcls, acls |-> acls, hasCats |-> hasCats, cats |-> cats]

PatchBodies ==
    {Garbage}
      \cup {UserBody(FALSE, {}, FALSE, {})}
      \cup {UserBody(TRUE, a, FALSE, {}) : a \in {{"Search"}, {"User"}}}
      \cup {UserBody(FALSE, {}, TRUE, c) : c \in {{"search"}, {"user"}}}
      \cup {UserBody(TRUE, a, TRUE, c) : a \in {{"Search"}, {"User"}},
                                        c \in {{"search"}, {"user"}}}

\* userBody.GetPatch(): the patch document, or an error when the body sets
\* categories together with acls that do not admit them.
GetPatch(body) ==
    [err |-> body.hasAcls /\ body.hasCats /\ ~Admitted(body.acls, body.cats),
     hasAcls |-> body.hasAcls, acls |-> body.acls,
     hasCats |-> body.hasCats, cats |-> body.cats]

\* The PATCH requests: patchUser on the authenticated user, and
\* patchUserWithUsername on the user named in the path.
PatchRequests ==
    {[handler |-> "patchUser", user |-> "carol", body |-> b] : b \in PatchBodies}
      \cup {[handler |-> "patchUserWithUsername", user |-> u, body |-> b] :
                u \in Usernames, b \in PatchBodies}
      \cup {[handler |-> "patchUserWithUsername", user |-> NoUsername,
             body |-> UserBody(TRUE, {"Search"}, FALSE, {})]}

NewPatch(in) ==
    [handler |-> in.handler, user |-> in.user, body |-> in.body, pc |-> "new",
     fetched |-> FALSE, seen |-> {}, status |-> 0, called |-> FALSE, err |-> ""]

\* util.WriteBackError(w, msg, code) and return.
PatchAnswer(rq, code) == [rq EXCEPT !.pc = "done", !.status = code]

PatchCheckCategoriesUnchecked(rq, stored) ==
    IF ~stored.exists THEN PatchAnswer(rq, StatusInternalServerError)
    ELSE [rq EXCEPT !.fetched = TRUE, !.seen = stored.acls, !.pc = "store"]

\* Lines 168-193 (240-265): the categories of a patch without acls are
\* validated against the user u.es.getUser returns.
PatchCheckCategories(rq, stored) ==
    IF ~stored.exists THEN PatchAnswer(rq, StatusInternalServerError)
    ELSE LET read == [rq EXCEPT !.fetched = TRUE, !.seen = stored.acls] IN
         IF ~ValidateCategories(stored, rq.body.cats)
         THEN PatchAnswer(read, StatusBadRequest)
         ELSE [read EXCEPT !.pc = "store"]

\* Lines 141-193 (208-265): everything the handler does before it calls
\* u.es.patchUser.  stored is what the store holds for the user.
PatchValidate(rq, stored) ==
    IF rq.user = NoUsername THEN PatchAnswer(rq, StatusBadRequest)
    ELSE IF ~rq.body.parses THEN PatchAnswer(rq, StatusBadRequest)
    ELSE IF GetPatch(rq.body).err THEN PatchAnswer(rq, StatusBadRequest)
    ELSE IF ~GetPatch(rq.body).hasAcls /\ GetPatch(rq.body).hasCats
         THEN PatchCheckCategories(rq, stored)
    ELSE [rq EXCEPT !.pc = "store"]

\* The store's patchUser: a partial update of the stored user with the
\* fields of the patch.
ApplyPatch(stored, patch) ==
    [stored EXCEPT !.acls = IF patch.hasAcls THEN patch.acls ELSE @,
                   !.cats = IF patch.hasCats THEN patch.cats ELSE @]

\* How u.es.patchUser can end for a request: "" (no error), "notfound", or
\* "conflict" while another PATCH of the same user is at the store.
StoreOutcomes(rq) ==
    IF ~principals[rq.user].exists THEN {"notfound"}
    ELSE {""} \cup {"conflict" : other \in {o \in BagToSet(preq (-) SetToBag({rq})) :
                                                 o.pc = "store" /\ o.user = rq.user}}

\* Lines 195-203 (267-275): the answer after u.es.patchUser returned err.
PatchRespond(rq, err) ==
    IF err = ""
    THEN [rq EXCEPT !.pc = "done", !.status = StatusOK, !.called = TRUE, !.err = err]
    ELSE [rq EXCEPT !.pc = "done", !.status = StatusNotFound, !.called = TRUE, !.err = err]

MaxPatches == 2

PatchReplace(rq, rq2) == (preq (-) SetToBag({rq})) (+) SetToBag({rq2})

RecorderFrame == UNCHANGED <<areq, req, store, issued, crashed, singleton, once, caller, made>>

\* A PATCH request arrives and runs up to the call of u.es.patchUser.
PatchArrive ==
    /\ BagCardinality(preq) < MaxPatches
    /\ \E in \in PatchRequests :
         LET stored == IF in.user \in Usernames THEN principals[in.user] ELSE NoPrincipal
         IN preq' = preq (+) SetToBag({PatchValidate(NewPatch(in), stored)})
    /\ UNCHANGED principals
    /\ RecorderFrame

\* u.es.patchUser(username, patch) and the response.
PatchStore ==
    /\ \E rq \in BagToSet(preq) :
         /\ rq.pc = "store"
         /\ \E err \in StoreOutcomes(rq) :
              /\ preq' = PatchReplace(rq, PatchRespond(rq, err))
              /\ principals' = IF err = ""
                               THEN [principals EXCEPT ![rq.user] =
                                        ApplyPatch(@, GetPatch(rq.body))]
                               ELSE principals
    /\ RecorderFrame

InitUsers ==
    /\ areq = AuthIdle
    /\ req = EmptyBag
    /\ store = [d \in DocIds |-> EmptyRecord]
    /\ issued = {}
    /\ crashed = FALSE
    /\ principals = StoredAtStart
    /\ preq = EmptyBag
    /\ ReindexerStart

NextUsers ==
    \/ PatchArrive
    \/ PatchStore

SpecUsers == InitUsers /\ [][NextUsers]_vars

-----------------------------------------------------------------------------
(* Specifications.                                                         *)

Init ==
    /\ areq = AuthIdle
    /\ req = EmptyBag
    /\ store = [d \in DocIds |-> EmptyRecord]
    /\ issued = {}
    /\ crashed = FALSE
    /\ principals = StoredAtStart
    /\ preq = EmptyBag
    /\ ReindexerStart

Next ==
    \/ Enter
    \/ ServeDirect
    \/ ServeTee
    \/ Relay
    \/ Spawn
    \/ RecordTask

Spec == Init /\ [][Next]_vars

\* The whole Recorder handler of one request as a single step: lines 53-91,
\* from the context lookup to the return, with h run in between.
RecorderHandler(acl, q, sid, prog, n) ==
    LET entered == RecorderEnter(NewReq, acl, q, sid, n) IN
    CASE entered.pc = "direct" -> ServeDirectly(entered, prog)
      [] entered.pc = "tee" -> StartTask(RelayResponse(ServeRecorded(entered, prog)))
      [] OTHER -> entered

Handle ==
    /\ Live
    /\ BagCardinality(req) < MaxReqs
    /\ \E acl \in CtxACLs, q \in Queries, sid \in {"", ClientId} \cup issued,
          prog \in Programs :
         \E rq \in {RecorderHandler(acl, q, sid, prog, Cardinality(issued))} :
            /\ req' = req (+) SetToBag({rq})
            /\ issued' = IF Teed(rq) /\ sid = "" THEN issued \cup {rq.docId} ELSE issued
    /\ UNCHANGED <<areq, store, crashed, principals, preq, singleton, once, caller, made>>

NextLive ==
    \/ Handle
    \/ RecordTask

\* The recording tasks under fair scheduling: every started goroutine is
\* eventually run.  The handler of a request is taken as one step.
SpecLive == Init /\ [][NextLive]_vars /\ WF_vars(RecordTask)

\* What the wrapped handler writes when the client went away while it waited
\* for the upstream: its upstream call is cancelled and it answers with an
\* error status, with an empty body or with the error envelope.
CancelledPrograms ==
    { <<OpWriteHeader(StatusInternalServerError)>>,
      <<OpWriteHeader(StatusInternalServerError), OpWrite(<<DocErr>>)>> }

\* The Recorder handler of a request whose client disconnects while h runs.
\* Recorder never reads r.Context().Done() or Err(): lines 78-91 run as for
\* any other request, on whatever h left in the recorder.
HandleCancelled ==
    /\ Live
    /\ BagCardinality(req) < MaxReqs
    /\ \E acl \in CtxACLs, q \in Queries, sid \in {"", ClientId} \cup issued,
          prog \in CancelledPrograms :
         \E rq \in {RecorderHandler(acl, q, sid, prog, Cardinality(issued))} :
            /\ req' = req (+) SetToBag({rq})
            /\ issued' = IF Teed(rq) /\ sid = "" THEN issued \cup {rq.docId} ELSE issued
    /\ UNCHANGED <<areq, store, crashed, principals, preq, singleton, once, caller, made>>

NextCancel ==
    \/ HandleCancelled
    \/ RecordTask

\* Requests whose clients all disconnect before the upstream responds.
SpecCancel == Init /\ [][NextCancel]_vars

\* The responses recordResponse is run on: one search request whose handler
\* wrote one of the documents of the model, relayed and about to be recorded.
RecordedPrograms ==
    {<<>>} \cup {<<OpWrite(<<d>>)>> :
                    d \in {Junk, DocA, DocB, DocES7, DocM, DocErr, DocTen, DocBig,
                           DocIdInside}}

\* The request headers, the URI and the lookups recordResponse reads.
RecordInputs ==
    { [uri |-> uri, idx |-> idx, filters |-> fl, click |-> ck, clickPos |-> cp,
       conv |-> cv, custom |-> cu, geoOk |-> g, countryOk |-> TRUE] :
        uri \in {UriSearch, UriMsearch, UriMsearchTemplate, UriIndexNamed},
        idx \in BOOLEAN,
        fl \in {<<>>, <<Entry("color", "red"), NoColon("size"), Entry("color", "blue")>>},
        ck \in {"", "true", "maybe"},
        cp \in {"", "3", "third"},
        cv \in {"", "0", "yes"},
        cu \in {<<>>, <<Entry("k", "v")>>},
        g \in BOOLEAN }

InitRecord ==
    /\ areq = AuthIdle
    /\ \E q \in Queries, sid \in {"", ClientId}, prog \in RecordedPrograms :
         /\ q # "" \/ sid # ""
         /\ req = SetToBag({RecorderHandler("Search", q, sid, prog, 0)})
         /\ issued = IF sid = "" THEN {Uuid(1)} ELSE {}
    /\ store = [d \in DocIds |-> EmptyRecord]
    /\ crashed = FALSE
    /\ principals = StoredAtStart
    /\ preq = EmptyBag
    /\ ReindexerStart

\* The goroutine of the request runs recordResponse on any of the inputs.
RecordAny ==
    /\ Live
    /\ \E rq \in Arrived :
         /\ rq.task = "running"
         /\ \E x \in RecordInputs, written \in BOOLEAN :
              \E out \in {recordResponse(rq.docId, rq.sid, rq.q, rq.rec.body, x)} :
                 /\ crashed' = (out.outcome = "panic")
                 /\ req' = Replace(rq, TaskEnd(rq, out, x, written))
                 /\ store' = IF out.outcome = "indexed" /\ written
                             THEN indexRecord(store, out.docId, out.record)
                             ELSE store
    /\ UNCHANGED <<areq, issued, principals, preq, singleton, once, caller, made>>

SpecRecord == InitRecord /\ [][RecordAny]_vars

InitAuth ==
    /\ areq \in {AuthStart(m, u, o, ch) :
                    m \in Methods, u \in Users \cup {NoUser},
                    o \in Ops \cup {NoOp}, ch \in Chains}
    /\ req = EmptyBag
    /\ store = [d \in DocIds |-> EmptyRecord]
    /\ issued = {}
    /\ crashed = FALSE
    /\ principals = StoredAtStart
    /\ preq = EmptyBag
    /\ ReindexerStart

NextAuth ==
    \/ Classifier
    \/ ValidateOp
    \/ ValidateACL
    \/ Handler

SpecAuth == InitAuth /\ [][NextAuth]_vars

\* The users of the requests of SpecCtx: none, one holding everything, one
\* holding nothing.
CtxUsers ==
    { NoUser,
      [present |-> TRUE, isAdmin |-> FALSE, acls |-> ACLs, ops |-> Ops],
      [present |-> TRUE, isAdmin |-> FALSE, acls |-> {}, ops |-> {}] }

InitCtx ==
    /\ areq \in {AuthStart(m, u, o, ch) :
                    m \in Methods, u \in CtxUsers, o \in {NoOp, "Read"}, ch \in Chains}
    /\ req = EmptyBag
    /\ store = [d \in DocIds |-> EmptyRecord]
    /\ issued = {}
    /\ crashed = FALSE
    /\ principals = StoredAtStart
    /\ preq = EmptyBag
    /\ ReindexerStart

\* One request on a search route, handled by Recorder.
HandleOne ==
    /\ req = EmptyBag
    /\ Handle

NextCtx ==
    \/ Classifier
    \/ ValidateOp
    \/ ValidateACL
    \/ Handler
    \/ HandleOne
    \/ RecordTask

\* A request on an analytics route and a request on a search route, served
\* side by side.
SpecCtx == InitCtx /\ [][NextCtx]_vars

\* The wrapping orders of a route whose innermost middleware is Recorder:
\* with classifier ahead of the readers of the context, behind one of them,
\* and without it.
RecorderChains ==
    { <<"classifier", "validateOp", "validateACL", "Recorder">>,
      <<"classifier", "validateACL", "validateOp", "Recorder">>,
      <<"validateACL", "classifier", "validateOp", "Recorder">>,
      <<"validateOp", "classifier", "Recorder">>,
      <<"validateOp", "validateACL", "Recorder">>,
      <<"classifier", "Recorder">>,
      <<"Recorder">> }

\* Recorder as the last wrapper of the chain: it reads the acl the context
\* holds when the request reaches it, lines 53-91 in one step with h run in
\* between.  It answers 500 itself or h answers.
RecorderStage ==
    /\ Live
    /\ AtStage("Recorder")
    /\ \E q \in Queries, sid \in {"", ClientId}, prog \in Programs :
         LET entered == RecorderEnter(NewReq, areq.ctxAcl, q, sid, Cardinality(issued))
             rq == RecorderHandler(areq.ctxAcl, q, sid, prog, Cardinality(issued))
         IN /\ req' = req (+) SetToBag({rq})
            /\ issued' = IF Teed(rq) /\ sid = "" THEN issued \cup {rq.docId} ELSE issued
            /\ areq' = IF entered.pc = "done"
                       THEN WriteBackMessage(areq, InternalMsg, StatusInternalServerError)
                       ELSE [WriteBackMessage(CallNext(areq), HandlerMsg, rq.cli.code)
                                EXCEPT !.handled = @ + 1]
    /\ UNCHANGED <<store, crashed, principals, preq, singleton, once, caller, made>>

\* The request reaches the outermost wrapper with whatever an earlier layer
\* left in its context: no acl or acl.Search, no operation or op.Read.
InitChain ==
    /\ areq \in {[AuthStart(m, u, o, ch) EXCEPT !.ctxAcl = c] :
                    m \in Methods, u \in CtxUsers, o \in {NoOp, "Read"},
                    c \in {NoACL, "Search"}, ch \in RecorderChains}
    /\ req = EmptyBag
    /\ store = [d \in DocIds |-> EmptyRecord]
    /\ issued = {}
    /\ crashed = FALSE
    /\ principals = StoredAtStart
    /\ preq = EmptyBag
    /\ ReindexerStart

NextChain ==
    \/ Classifier
    \/ ValidateOp
    \/ ValidateACL
    \/ RecorderStage
    \/ RecordTask

\* One request through a chain that ends in Recorder.
SpecChain == InitChain /\ [][NextChain]_vars

\* Goroutines calling reindexer.Instance() concurrently, from the start of the
\* process.
SpecInstance == Init /\ [][NextInstance]_vars

-----------------------------------------------------------------------------
(* Properties of the middleware chain (specification SpecAuth).            *)

Answered == areq.status # 0

HasACL == "Analytics" \in areq.user.acls
HasOp == areq.ctxOp \in areq.user.ops

\* The request carries a user and an operation, so neither validator answers
\* 500 for a missing context value.
Checkable == Answered /\ areq.user.present /\ areq.ctxOp # NoOp

\* C1: the wrapped handler is invoked only if the context operation is among
\* the user's Ops and acl.Analytics is among the user's ACLs (or the user is
\* an admin), for every user and every method.
C1_HandlerOnlyIfAuthorized ==
    areq.handled > 0 => ((HasOp /\ HasACL) \/ areq.user.isAdmin)

C1_Witness ==
    /\ areq.handled = 1
    /\ ~areq.user.isAdmin
    /\ areq.method = "DELETE"
    /\ areq.ctxOp = "Delete"
    /\ HasOp /\ HasACL

\* C2 as claimed: an admin reaches the wrapped handler whatever its acls and
\* ops are.
C2_AdminBypasses ==
    (Checkable /\ areq.user.isAdmin) => areq.handled = 1

\* C2 as amended: an admin is checked like every other user; it reaches the
\* wrapped handler exactly when acl.Analytics is among its ACLs and the
\* operation among its Ops, and is answered 401 otherwise.
C2_AdminIsChecked ==
    (Checkable /\ areq.user.isAdmin) =>
        /\ areq.handled = 1 <=> (HasACL /\ HasOp)
        /\ areq.handled = 0 => areq.status = StatusUnauthorized

C2_Witness ==
    /\ Checkable
    /\ areq.user.isAdmin
    /\ HasACL /\ ~HasOp
    /\ areq.handled = 0
    /\ areq.status = StatusUnauthorized

\* The message names something the user really lacks.
NamesMissing ==
    \/ areq.msg = ACLMsg("Analytics") /\ ~HasACL
    \/ areq.msg = OpMsg(areq.ctxOp) /\ ~HasOp

\* C3 as claimed: a user lacking the acl or the op is answered 403 with a
\* message naming the missing acl or op, and the handler is not invoked.
C3_Forbidden403 ==
    (Checkable /\ (~HasACL \/ ~HasOp)) =>
        /\ areq.status = 403
        /\ NamesMissing
        /\ areq.handled = 0

\* C3 as amended: the status is 401 (http.StatusUnauthorized); the message
\* names the missing acl or op and the handler is not invoked.
C3_Unauthorized401 ==
    (Checkable /\ (~HasACL \/ ~HasOp)) =>
        /\ areq.status = StatusUnauthorized
        /\ NamesMissing
        /\ areq.handled = 0

C3_Witness ==
    /\ Checkable
    /\ areq.method = "DELETE"
    /\ areq.user.ops = {"Read"}
    /\ HasACL
    /\ areq.status = StatusUnauthorized
    /\ areq.msg = OpMsg("Delete")
    /\ areq.msg[4] = "delete"
    /\ areq.handled = 0

\* The request has passed classifier.
Classified ==
    /\ Len(areq.chain) >= 1
    /\ areq.chain[1] = "classifier"
    /\ areq.pos > 1

\* C16: classifier gives every method exactly one operation, whatever the
\* context held before: GET -> Read, POST/PUT/PATCH -> Write, DELETE -> Delete
\* and every other method -> Read.
C16_ClassifierMapping ==
    Classified =>
        /\ areq.ctxOp \in Ops
        /\ areq.method = "GET" => areq.ctxOp = "Read"
        /\ areq.method \in {"POST", "PUT", "PATCH"} => areq.ctxOp = "Write"
        /\ areq.method = "DELETE" => areq.ctxOp = "Delete"
        /\ areq.method \notin {"GET", "POST", "PUT", "PATCH", "DELETE"} =>
               areq.ctxOp = "Read"

C16_Witness ==
    /\ Classified
    /\ areq.method = "OPTIONS"
    /\ areq.ctxOp = "Read"
    /\ areq.user.ops = {"Read"}
    /\ areq.handled = 1

-----------------------------------------------------------------------------
(* Properties of Recorder and recordResponse (specifications Spec and      *)
(* SpecLive).                                                              *)

\* The requests that passed straight through rather than through the tee.
Direct(rq) == rq.acl \in {"Search", "Analytics"} /\ ~Teed(rq)

\* The client has its whole response.
Answer(rq) == rq.pc \in {"relayed", "done"}

\* C4: on the pass-through path and on the tee path, the status and the body
\* the client receives are those the wrapped handler produced.
C4_ClientGetsHandlerResponse ==
    \A rq \in Arrived :
        (Answer(rq) /\ (Teed(rq) \/ Direct(rq))) =>
            /\ rq.cli.wrote
            /\ rq.cli.code = ProgStatus(rq.prog)
            /\ rq.cli.body = ProgBody(rq.prog)

C4_Witness ==
    /\ \E rq \in Arrived :
         /\ Teed(rq) /\ rq.pc = "done"
         /\ rq.cli.code = StatusNotFound
         /\ rq.cli.body = <<Junk>>
    /\ \E rq \in Arrived :
         /\ Direct(rq) /\ rq.pc = "done"
         /\ rq.cli.code = StatusOK
         /\ rq.cli.body = <<DocA>>

\* C5: a request whose context ACL is Search and whose X-Search-Query is
\* non-empty is answered with a non-empty X-Search-Id header.
C5_SearchIdPresent ==
    \A rq \in Arrived :
        (Answer(rq) /\ rq.acl = "Search" /\ rq.q # "") =>
            rq.cli.sent[XSearchId] # ""

C5_Witness ==
    \E rq \in Arrived :
        /\ rq.pc = "done" /\ rq.acl = "Search" /\ rq.q # "" /\ rq.sid = ""
        /\ rq.rec.hdr[XSearchId] = ""
        /\ rq.cli.sent[XSearchId] \in issued

\* C6: on the tee path the X-Search-Id sent to the client is the request's
\* own X-Search-Id when it has one and otherwise a UUID no other request was
\* given; it replaces the header the wrapped handler set, and it is the
\* document id handed to the recording task.
C6_SearchIdValue ==
    \A rq \in Arrived :
        Teed(rq) =>
            /\ rq.sid # "" => rq.docId = rq.sid
            /\ rq.sid = "" =>
                 /\ rq.docId \in issued
                 /\ rq.docId # ClientId
                 /\ req[rq] = 1
                 /\ \A other \in Arrived :
                      (other.sid = "" /\ other.docId = rq.docId) => other = rq
            /\ Answer(rq) => rq.cli.sent[XSearchId] = rq.docId
            /\ rq.calls > 0 => rq.callId = rq.cli.sent[XSearchId]

C6_Witness ==
    /\ Cardinality(issued) = 2
    /\ \E rq \in Arrived :
         /\ rq.sid = "" /\ rq.task = "indexed"
         /\ rq.rec.hdr[XSearchId] = "from-handler"
         /\ rq.cli.sent[XSearchId] = rq.docId
         /\ rq.callId = rq.docId
         /\ rq.docId \in issued

\* What the wrapped handler sends when it is given the client's own writer.
Untouched(rq) == Finish(Run(rq.prog, NewWriter))

\* C7: when the context ACL is not Search the handler writes straight to the
\* client, Recorder adds no X-Search-Id header, and no recording task is
\* started, so no indexRecord call results.
C7_NonSearchTransparent ==
    \A rq \in Arrived :
        rq.acl = "Analytics" =>
            /\ rq.pc \in {"direct", "done"}
            /\ rq.rec = NewRecorder
            /\ rq.task = "none" /\ rq.calls = 0
            /\ rq.pc = "done" =>
                 /\ rq.cli = Untouched(rq)
                 /\ rq.cli.sent[XSearchId] = Run(rq.prog, NewWriter).hdr[XSearchId]

C7_Witness ==
    \E rq \in Arrived :
        /\ rq.acl = "Analytics" /\ rq.q # "" /\ rq.sid # ""
        /\ rq.pc = "done"
        /\ rq.prog # <<>>
        /\ rq.cli.sent[XSearchId] = ""

\* The captured body unmarshals under the decoder the request URI selects.
Unmarshals(rq) == ~Unmarshal(rq.meta.uri, rq.rec.body).err

TaskEnded(rq) == rq.task \in {"indexed", "dropped", "panic"}

TaskRunning == \E rq \in Arrived : rq.task = "running"

C8_Safety ==
    \A rq \in Arrived :
        /\ rq.calls <= 1
        /\ rq.calls = 1 => (Teed(rq) /\ rq.callId = rq.cli.sent[XSearchId])
        /\ ~TaskEnded(rq) => rq.calls = 0
        /\ TaskEnded(rq) =>
             (rq.calls = 1 <=> (Unmarshals(rq) /\ (rq.sid # "" \/ rq.meta.idx)))

View(rq) == [cli |-> rq.cli, docId |-> rq.docId, sid |-> rq.sid, q |-> rq.q, acl |-> rq.acl]

RECURSIVE Copies(_, _)
Copies(b, S) ==
    IF S = {} THEN 0
    ELSE LET e == CHOOSE e \in S : TRUE IN b[e] + Copies(b, S \ {e})

DoneViews(b) ==
    LET D == {rq \in BagToSet(b) : rq.pc = "done"}
        V == {View(rq) : rq \in D}
    IN [v \in V |-> Copies(b, {rq \in D : View(rq) = v})]

C9_TaskAfterResponse ==
    \A rq \in Arrived :
        rq.task # "none" =>
            /\ rq.pc = "done"
            /\ rq.cli.wrote
            /\ rq.cli.code = rq.rec.code
            /\ rq.cli.body = rq.rec.body
            /\ \A k \in HeaderNames \ {XSearchId} : rq.cli.sent[k] = rq.rec.hdr[k]

\* C9: the recording task of a request is started only after the captured
\* headers, status and body were written to the client; the handler has
\* returned whenever the task exists, and nothing the task does (a slow or a
\* failed write) changes a response already given.
C9_TaskDetached ==
    /\ []C9_TaskAfterResponse
    /\ [][DoneViews(req) \sqsubseteq DoneViews(req')]_vars

C9_Witness ==
    /\ \E rq \in Arrived :
         /\ rq.pc = "done" /\ rq.task = "running"
         /\ rq.cli.body = <<DocA>>
         /\ rq.cli.sent[ContentType] = "application/json"
    /\ \E rq \in Arrived :
         /\ rq.task = "indexed" /\ ~rq.written

OriginOnly ==
    {"indices", "search_query", "hits_in_response", "total_hits", "datestamp",
     "search_filters"}

Kept == {"search_query", "total_hits", "hits_in_response"}

\* C10: the record of a request that carried X-Search-Id has none of the
\* fields indices, search_query, hits_in_response, total_hits, datestamp,
\* search_filters; so once the origin event of a search id is stored, the
\* stored search_query, total_hits and hits_in_response are the origin's,
\* whatever follow-up events were merged before or after it.
C10_FollowUpKeepsOrigin ==
    \A rq \in Arrived :
        rq.task = "indexed" =>
            /\ rq.sid # "" => DOMAIN rq.record \cap OriginOnly = {}
            /\ (rq.sid = "" /\ rq.written) =>
                 \A f \in Kept :
                    /\ f \in DOMAIN store[rq.docId]
                    /\ store[rq.docId][f] = rq.record[f]

C10_Witness ==
    \E o \in Arrived, f \in Arrived :
        /\ o.sid = "" /\ o.task = "indexed" /\ o.written
        /\ f.sid = o.docId /\ f.task = "indexed" /\ f.written
        /\ f.q # "" /\ f.rec.body # o.rec.body
        /\ "conversion" \in DOMAIN store[o.docId]
        /\ store[o.docId]["search_query"] = "shoes"
        /\ store[o.docId]["total_hits"] = 2
        /\ Len(store[o.docId]["hits_in_response"]) = 2

\* The request made an indexRecord call whose record holds search_query.
IndexedQuery(rq) == rq.calls > 0 /\ "search_query" \in DOMAIN rq.record

\* C20: a record holds search_query only when its request had no X-Search-Id,
\* and such a request is given a newly generated id, so no two indexRecord
\* calls with search_query in the record use the same document id; a request
\* with both X-Search-Id and X-Search-Query is recorded without search_query.
C20_QueryRecordsHaveOwnIds ==
    \A rq \in Arrived :
        /\ IndexedQuery(rq) =>
             /\ rq.sid = ""
             /\ rq.callId \in issued
             /\ rq.callId # ClientId
             /\ req[rq] = 1
             /\ \A other \in Arrived :
                  (IndexedQuery(other) /\ other.callId = rq.callId) => other = rq
        /\ (rq.task = "indexed" /\ rq.sid # "") =>
             "search_query" \notin DOMAIN rq.record

C20_Witness ==
    \E a \in Arrived, b \in Arrived :
        /\ IndexedQuery(a) /\ IndexedQuery(b)
        /\ a.callId # b.callId
        /\ a.q = b.q
        /\ a.rec.body = b.rec.body

-----------------------------------------------------------------------------
(* Cancelled requests (specification SpecCancel).                          *)

\* C11: when the client disconnects before the wrapped handler's upstream
\* response arrives, recordResponse does not reach indexRecord for that
\* request.
C11_CancelledNotRecorded ==
    \A rq \in Arrived :
        rq.prog \in CancelledPrograms => rq.calls = 0

-----------------------------------------------------------------------------
(* Missing context values (specification SpecCtx).                         *)

\* The middleware that wrote the response of the analytics request.
AnsweredBy(name) ==
    /\ Answered
    /\ areq.pos <= Len(areq.chain)
    /\ areq.chain[areq.pos] = name

InternalError ==
    /\ areq.status = StatusInternalServerError
    /\ areq.msg = InternalMsg
    /\ areq.handled = 0

\* C12: validateOp without a user or without an operation in the context,
\* validateACL without a user, and Recorder without an ACL each answer 500
\* and do not invoke the wrapped handler; Recorder starts no recording task.
C12_MissingContextIs500 ==
    /\ (Answered /\ ~areq.user.present) => InternalError
    /\ (Answered /\ areq.ctxOp = NoOp) => areq.handled = 0
    /\ (AnsweredBy("validateOp") /\ (~areq.user.present \/ areq.ctxOp = NoOp)) =>
           InternalError
    /\ (AnsweredBy("validateACL") /\ ~areq.user.present) => InternalError
    /\ \A rq \in Arrived :
         rq.acl = NoACL =>
            /\ rq.pc = "done"
            /\ rq.cli.wrote
            /\ rq.cli.code = StatusInternalServerError
            /\ rq.cli.body = <<InternalErrorBody>>
            /\ rq.rec = NewRecorder
            /\ rq.docId = ""
            /\ rq.task = "none" /\ rq.calls = 0

C12_Witness ==
    /\ AnsweredBy("validateOp")
    /\ areq.user.present /\ areq.user.ops = Ops
    /\ areq.ctxOp = NoOp
    /\ InternalError
    /\ \E rq \in Arrived :
         /\ rq.acl = NoACL
         /\ rq.cli.code = StatusInternalServerError

-----------------------------------------------------------------------------
(* classifier ahead of the readers of the context (specification           *)
(* SpecChain).                                                             *)

\* classifier wraps the middleware called name, directly or not.
ClassifierBefore(name) ==
    \E i, j \in DOMAIN areq.chain :
        /\ i < j
        /\ areq.chain[i] = "classifier"
        /\ areq.chain[j] = name

\* The step of classifier: both context values are set, nothing is written
\* to the response, and control passes to the wrapped handler, once.
ClassifierStep ==
    AtStage("classifier") =>
        /\ areq'.pos = areq.pos + 1
        /\ areq'.status = 0
        /\ areq'.ctxAcl = "Analytics"
        /\ areq'.ctxOp \in Ops
        /\ areq'.handled = areq.handled

\* Behind classifier neither 500 branch for a missing context value is taken.
NoMissingBehindClassifier ==
    /\ (ClassifierBefore("validateOp") /\ AnsweredBy("validateOp")) =>
           /\ areq.ctxOp \in Ops
           /\ areq.status = StatusInternalServerError => ~areq.user.present
    /\ ClassifierBefore("Recorder") =>
           /\ ~AnsweredBy("Recorder")
           /\ \A rq \in Arrived :
                /\ rq.acl = "Analytics"
                /\ rq.cli.body # <<InternalErrorBody>>
           /\ areq.pos > Len(areq.chain) => areq.handled = 1

\* C21: classifier calls the handler it wraps exactly once, having written
\* both the acl and the operation into the request context; so in every
\* chain where classifier comes before validateOp and Recorder, validateOp
\* never answers 500 for a missing operation and Recorder never answers 500
\* for a missing acl.
C21_ClassifierFillsContext ==
    /\ [][ClassifierStep]_vars
    /\ [][areq'.pos >= areq.pos /\ areq'.handled <= 1]_vars
    /\ []NoMissingBehindClassifier

C21_Witness ==
    /\ areq.chain = <<"validateACL", "classifier", "validateOp", "Recorder">>
    /\ areq.method = "HEAD"
    /\ areq.ctxOp = "Read" /\ areq.ctxAcl = "Analytics"
    /\ areq.pos = 5 /\ areq.handled = 1
    /\ \E rq \in Arrived :
         /\ rq.acl = "Analytics"
         /\ rq.q = "shoes"
         /\ rq.pc = "done" /\ rq.task = "none"
         /\ rq.cli.body = <<DocA>>

-----------------------------------------------------------------------------
(* Properties of the PATCH handlers (specification SpecUsers).             *)

\* C13: after any interleaving of PATCH requests every stored principal has
\* each of its categories admitted by one of its acls.
C13_CategoriesAdmitted ==
    \A u \in Usernames :
        principals[u].exists => Admitted(principals[u].acls, principals[u].cats)

\* The request patches categories and not acls, and some category is not
\* admitted by the acls u.es.getUser returned for the user.
CategoriesRefused(rq) ==
    /\ rq.body.parses
    /\ ~rq.body.hasAcls /\ rq.body.hasCats
    /\ rq.fetched
    /\ ~Admitted(rq.seen, rq.body.cats)

\* C14: a PATCH of categories without acls, with a category the stored acls
\* of the user do not admit, is answered 400 and u.es.patchUser is never
\* called for it.
C14_BadCategories400 ==
    \A rq \in BagToSet(preq) :
        CategoriesRefused(rq) =>
            /\ rq.pc = "done"
            /\ rq.status = StatusBadRequest
            /\ ~rq.called

C14_Witness ==
    /\ principals["carol"].acls = {"Search"}
    /\ \E rq \in BagToSet(preq) :
         /\ rq.user = "carol"
         /\ ~rq.body.hasAcls /\ rq.body.cats = {"user"}
         /\ rq.seen = {"Search"}
         /\ rq.status = StatusBadRequest
         /\ ~rq.called

\* C15: a PATCH the store rejects for a concurrent modification of the same
\* principal is answered 409 Conflict.
C15_ConflictIs409 ==
    \A rq \in BagToSet(preq) :
        rq.err = "conflict" => rq.status = 409

-----------------------------------------------------------------------------
(* Properties of recordResponse over its inputs (specification SpecRecord). *)

BadClick(x) == x.click # "" /\ x.click \notin {"1", "t", "T", "TRUE", "true", "True",
                                                "0", "f", "F", "FALSE", "false", "False"}
BadPosition(x) == x.clickPos # "" /\ x.clickPos \notin {"0", "3", "-1"}
BadConversion(x) == x.conv # "" /\ x.conv \notin {"1", "t", "T", "TRUE", "true", "True",
                                                 "0", "f", "F", "FALSE", "false", "False"}

\* The request without the headers whose values do not parse.
WithoutInvalid(x) ==
    [x EXCEPT !.click = IF BadClick(x) THEN "" ELSE @,
              !.clickPos = IF BadPosition(x) THEN "" ELSE @,
              !.conv = IF BadConversion(x) THEN "" ELSE @]

\* How the task of rq would have ended had the invalid headers been absent.
HadTheyBeenAbsent(rq) ==
    recordResponse(rq.docId, rq.sid, rq.q, rq.rec.body, WithoutInvalid(rq.meta))

\* C17: an unparseable X-Search-Click, X-Search-Click-Position or
\* X-Search-Conversion does not change whether indexRecord is called; the
\* record lacks the key of each invalid header and is otherwise the record of
\* the same request without that header.
C17_InvalidHeadersOmitted ==
    \A rq \in Arrived :
        TaskEnded(rq) =>
            /\ rq.task = HadTheyBeenAbsent(rq).outcome
            /\ rq.task = "indexed" =>
                 /\ rq.calls = 1
                 /\ rq.record = HadTheyBeenAbsent(rq).record
                 /\ BadClick(rq.meta) => "click" \notin DOMAIN rq.record
                 /\ BadPosition(rq.meta) => "click_position" \notin DOMAIN rq.record
                 /\ BadConversion(rq.meta) => "conversion" \notin DOMAIN rq.record

C17_Witness ==
    \E rq \in Arrived :
        /\ rq.task = "indexed" /\ rq.calls = 1
        /\ rq.meta.click = "maybe" /\ rq.meta.clickPos = "3" /\ rq.meta.conv = "yes"
        /\ DOMAIN rq.record \cap {"click", "click_position", "conversion"} = {"click_position"}
        /\ rq.record["click_position"] = 3
        /\ "custom_events" \in DOMAIN rq.record

\* What the task of rq did, against the parse under the given decoder: it
\* returned early exactly when that parse fails, and recorded the took and
\* total of that parse.
ParsedAs(rq, parsed) ==
    /\ rq.task = "dropped" <=> parsed.err
    /\ rq.task = "indexed" =>
         /\ rq.record["took"] = parsed.es.took
         /\ rq.sid = "" =>
              /\ rq.record["total_hits"] = parsed.es.total
              /\ Len(rq.record["hits_in_response"]) <= Len(parsed.es.hits)

EndsInMsearch(uri) == uri[Len(uri)] = "_msearch"

HasMsearch(uri) == "_msearch" \in {uri[i] : i \in DOMAIN uri}

\* C18 as claimed: the body is parsed as a multi-search envelope, its first
\* response used, exactly when the request path ends in _msearch, and as a
\* single search response otherwise.
C18_MsearchWhenPathEnds ==
    \A rq \in Arrived :
        TaskEnded(rq) =>
            IF EndsInMsearch(rq.meta.uri)
            THEN ParsedAs(rq, UnmarshalMsearch(rq.rec.body))
            ELSE ParsedAs(rq, UnmarshalSearch(rq.rec.body))

\* C18 as amended: the multi-search branch is taken exactly when the request
\* URI contains _msearch anywhere, and the single-response parse otherwise.
C18_MsearchWhenUriContains ==
    \A rq \in Arrived :
        TaskEnded(rq) =>
            IF HasMsearch(rq.meta.uri)
            THEN ParsedAs(rq, UnmarshalMsearch(rq.rec.body))
            ELSE ParsedAs(rq, UnmarshalSearch(rq.rec.body))

C18_Witness ==
    /\ \E rq \in Arrived :
         /\ rq.meta.uri = UriMsearchTemplate
         /\ rq.rec.body = <<DocM>>
         /\ rq.task = "indexed"
         /\ rq.record["took"] = 3

\* The search response the upstream sent for rq: the document of the body, or
\* the first response of a multi-search envelope.
Upstream(rq) ==
    LET doc == Content(rq.rec.body[1]) IN
    IF HasMsearch(rq.meta.uri)
    THEN IF Len(doc.responses) > 0 THEN doc.responses[1] ELSE ErrorDoc
    ELSE doc

\* The value the upstream sent under `key` in a hit.
Sent(hit, key) == hit.vals[CHOOSE i \in DOMAIN hit.keys : hit.keys[i] = key]

OriginRecorded(rq) == rq.task = "indexed" /\ rq.sid = ""

Stripped(str) ==
    [i \in DOMAIN str |->
        IF str[i] = "_source" THEN "source"
        ELSE IF str[i] = "_type" THEN "type"
        ELSE IF str[i] = "_id" THEN "id"
        ELSE str[i]]

-----------------------------------------------------------------------------
(* Properties of reindexer.Instance (specification SpecInstance).          *)

Returned(g) == caller[g].pc = "done"

\* What holds of every call that has returned, and of the construction.
OneInstance ==
    /\ made <= 1
    /\ singleton = Nil <=> made = 0
    /\ \A g \in Callers :
         Returned(g) =>
            /\ made = 1
            /\ caller[g].ret # Nil
            /\ caller[g].ret = singleton
    /\ \A g, h \in Callers :
         (Returned(g) /\ Returned(h)) => caller[g].ret = caller[h].ret

\* C22: under every interleaving of concurrent calls of Instance() the
\* reindexer value is constructed exactly once, every call returns that one
\* value, and no call returns nil; singleton is never assigned again.
C22_InstanceConstructedOnce ==
    /\ []OneInstance
    /\ [][singleton # Nil => singleton' = singleton]_vars

C22_Witness ==
    /\ \A g \in Callers : Returned(g) /\ caller[g].ret = 1
    /\ \E g, h, k \in Callers :
         /\ caller[g].how = "built"
         /\ caller[h].how = "waited"
         /\ caller[k].how = "fast"
    /\ made = 1 /\ once = [done |-> 1, m |-> 0]

====
